---- MODULE Spec2Model ----
(***************************************************************************)
(* Model of the Velero restore item action eth-eks/change-container-image. *)
(* A Go string is a sequence of one-character strings, so strings.Split,   *)
(* concatenation and comparison are computed on the characters.            *)
(***************************************************************************)
EXTENDS Integers, Sequences, FiniteSets, TLC

\* ------------------------------------------------------------------ bounds
MaxContainers == 2
MaxRuns == 2

\* ------------------------------------------------------- input universe
Colon == ":"

\* registry prefixes of an image reference: none, or host:port/
Registries == { <<>>, <<"h", ":", "5", "/">> }

\* tag suffixes: none, an empty tag, two different tags
TagSuffixes == { <<>>, <<":">>, <<":", "1">>, <<":", "2">> }

Images == { reg \o <<"o">> \o suf : reg \in Registries, suf \in TagSuffixes }

AnnotationValues == { reg \o <<"n">> \o suf : reg \in Registries, suf \in TagSuffixes }

Kinds == { "StatefulSet", "Deployment", "CronJob", "DaemonSet" }

ContainerNames == << "app", "sidecar", "metrics", "proxy" >>

\* the eth-eks.velero/container-image entry of metadata.annotations:
\*   nil       metadata has no annotations map
\*   absent    the map exists, the key does not
\*   nonstring the key holds a value that is not a string
\*   string    the key holds the string in value
Annotations ==
    { [type |-> t, value |-> <<>>] : t \in {"nil", "absent", "nonstring"} }
    \cup { [type |-> "string", value |-> v] : v \in AnnotationValues }

ContainerLists ==
    UNION { { [i \in 1..n |-> [name |-> ContainerNames[i], image |-> f[i]]]
              : f \in [1..n -> Images] } : n \in 0..MaxContainers }

InitContainerLists ==
    { <<>>, << [name |-> "init", image |-> <<"i", ":", "1">>] >> }

\* an item as the host hands it over (unstructured content)
Items ==
    { [kind |-> k, name |-> "test", namespace |-> "test-namespace",
       annotations |-> a, containers |-> c, initContainers |-> ic,
       unknownFields |-> u]
      : k \in Kinds, a \in Annotations, c \in ContainerLists,
        ic \in InitContainerLists, u \in BOOLEAN }

\* ------------------------------------------------------------- helpers
NoError == [msg |-> "", kind |-> ""]

RECURSIVE IndexOfColon(_, _)
IndexOfColon(s, i) ==
    IF i > Len(s) THEN 0
    ELSE IF s[i] = Colon THEN i
    ELSE IndexOfColon(s, i + 1)

\* strings.Split(s, ":")
RECURSIVE Split(_)
Split(s) ==
    LET idx == IndexOfColon(s, 1) IN
    IF idx = 0 THEN << s >>
    ELSE << SubSeq(s, 1, idx - 1) >> \o Split(SubSeq(s, idx + 1, Len(s)))

\* ------------------------------------------------------------- plugin
\* the tag read off the wrong side of the colon
getImageTag_repo(image) ==
    LET parts == Split(image) IN
    IF Len(parts) > 1 THEN parts[1] ELSE <<>>

getImageTag(image) ==
    LET parts == Split(image) IN
    IF Len(parts) > 1 THEN parts[2] ELSE <<>>

getImageAnnotation_always(item) ==
    [newImage |-> item.annotations.value, exists |-> TRUE]

getImageAnnotation(item) ==
    IF item.annotations.type \in {"nil", "absent"}
    THEN [newImage |-> <<>>, exists |-> FALSE]
    ELSE IF item.annotations.type # "string"
    THEN [newImage |-> <<>>, exists |-> FALSE]
    ELSE [newImage |-> item.annotations.value, exists |-> TRUE]

createResource(kind) ==
    IF kind \in {"StatefulSet", "Deployment"}
    THEN [ok |-> TRUE, err |-> NoError]
    ELSE [ok |-> FALSE, err |-> [msg |-> "unsupported kind", kind |-> kind]]

\* runtime.DefaultUnstructuredConverter.FromUnstructured into the typed
\* resource: fields the typed resource does not declare are dropped
FromUnstructured(item) ==
    [Kind |-> item.kind, Name |-> item.name, Namespace |-> item.namespace,
     Annotations |-> item.annotations,
     Containers |-> [i \in 1..Len(item.containers) |->
                       [Name |-> item.containers[i].name,
                        Image |-> item.containers[i].image]],
     InitContainers |-> [i \in 1..Len(item.initContainers) |->
                       [Name |-> item.initContainers[i].name,
                        Image |-> item.initContainers[i].image]]]

\* runtime.DefaultUnstructuredConverter.ToUnstructured of the typed resource
ToUnstructured(resource) ==
    [kind |-> resource.Kind, name |-> resource.Name,
     namespace |-> resource.Namespace,
     annotations |-> resource.Annotations,
     containers |-> [i \in 1..Len(resource.Containers) |->
                       [name |-> resource.Containers[i].Name,
                        image |-> resource.Containers[i].Image]],
     initContainers |-> [i \in 1..Len(resource.InitContainers) |->
                       [name |-> resource.InitContainers[i].Name,
                        image |-> resource.InitContainers[i].Image]],
     unknownFields |-> FALSE]

\* the loop without the test of the new image's own tag
RECURSIVE UpdateLoop_append(_, _, _)
UpdateLoop_append(containers, i, newImage) ==
    IF i > Len(containers) THEN containers
    ELSE LET currentImage == containers[i].Image
             tag == getImageTag(currentImage)
             next == IF tag # <<>>
                     THEN newImage \o <<Colon>> \o tag
                     ELSE newImage
         IN  UpdateLoop_append([containers EXCEPT ![i].Image = next], i + 1, next)

\* the loop of updateContainerImages from index i on; newImage is the
\* function's parameter, which the loop body reassigns
RECURSIVE UpdateLoop(_, _, _)
UpdateLoop(containers, i, newImage) ==
    IF i > Len(containers) THEN containers
    ELSE LET currentImage == containers[i].Image
             tag == getImageTag(currentImage)
             next == IF tag # <<>> /\ getImageTag(newImage) = <<>>
                     THEN newImage \o <<Colon>> \o tag
                     ELSE newImage
         IN  UpdateLoop([containers EXCEPT ![i].Image = next], i + 1, next)

\* the function walking the init containers as well
updateContainerImages_init(resource, newImage, kind) ==
    IF kind \in {"StatefulSet", "Deployment"}
    THEN [resource |-> [resource EXCEPT
                          !.Containers = UpdateLoop(resource.Containers, 1, newImage),
                          !.InitContainers = UpdateLoop(resource.InitContainers, 1, newImage)],
          err |-> NoError]
    ELSE [resource |-> resource,
          err |-> [msg |-> "unsupported kind", kind |-> kind]]

updateContainerImages(resource, newImage, kind) ==
    IF kind \in {"StatefulSet", "Deployment"}
    THEN [resource |-> [resource EXCEPT
                          !.Containers = UpdateLoop(resource.Containers, 1, newImage)],
          err |-> NoError]
    ELSE [resource |-> resource,
          err |-> [msg |-> "unsupported kind", kind |-> kind]]

createOutput(resource) ==
    [UpdatedItem |-> << ToUnstructured(resource) >>, err |-> NoError]

\* Execute looking at the kind before the annotation
ExecuteResult_kindFirst(item) ==
    LET kind == item.kind
        created == createResource(kind)
    IN  IF ~created.ok
        THEN [UpdatedItem |-> <<>>, err |-> created.err]
        ELSE LET ann == getImageAnnotation(item) IN
             IF ~ann.exists
             THEN [UpdatedItem |-> << item >>, err |-> NoError]
             ELSE LET resource == FromUnstructured(item)
                      updated == updateContainerImages(resource, ann.newImage, kind)
                  IN  IF updated.err # NoError
                      THEN [UpdatedItem |-> <<>>, err |-> updated.err]
                      ELSE createOutput(updated.resource)

\* Execute's result for an input item: UpdatedItem is <<>> for a nil output
ExecuteResult(item) ==
    LET ann == getImageAnnotation(item) IN
    IF ~ann.exists
    THEN [UpdatedItem |-> << item >>, err |-> NoError]
    ELSE LET kind == item.kind
             created == createResource(kind)
         IN  IF ~created.ok
             THEN [UpdatedItem |-> <<>>, err |-> created.err]
             ELSE LET resource == FromUnstructured(item)
                      updated == updateContainerImages(resource, ann.newImage, kind)
                  IN  IF updated.err # NoError
                      THEN [UpdatedItem |-> <<>>, err |-> updated.err]
                      ELSE createOutput(updated.resource)

AppliesToResult ==
    [IncludedResources |-> << "statefulsets", "deployments" >>,
     ExcludedResources |-> <<>>,
     IncludedNamespaces |-> <<>>,
     ExcludedNamespaces |-> <<>>,
     LabelSelector |-> "",
     err |-> NoError]

\* ------------------------------------------------------------- state
VARIABLES
    input,      \* the item of the current RestoreItemActionExecuteInput
    output,     \* <<>> before Execute returns, then << its result >>
    previous,   \* the results of the earlier Execute calls, oldest first
    selector    \* <<>> before AppliesTo is called, then << its result >>

vars == << input, output, previous, selector >>

Init ==
    /\ input \in Items
    /\ output = <<>>
    /\ previous = <<>>
    /\ selector = <<>>

\* the host asks which resources the action applies to
AppliesTo ==
    /\ selector = <<>>
    /\ selector' = << AppliesToResult >>
    /\ UNCHANGED << input, output, previous >>

\* the host calls Execute with the current item
Execute ==
    /\ output = <<>>
    /\ output' = << ExecuteResult(input) >>
    /\ UNCHANGED << input, previous, selector >>

\* the host hands the updated item of a successful Execute to Execute again
Resubmit ==
    /\ output # <<>>
    /\ output[1].UpdatedItem # <<>>
    /\ Len(previous) + 1 < MaxRuns
    /\ input' = output[1].UpdatedItem[1]
    /\ previous' = Append(previous, output[1])
    /\ output' = <<>>
    /\ UNCHANGED selector

Next == AppliesTo \/ Execute \/ Resubmit

Spec == Init /\ [][Next]_vars

\* ------------------------------------------------- vocabulary of the claims
Done == output # <<>>

Out == output[1]

Succeeded == Done /\ Out.err = NoError /\ Out.UpdatedItem # <<>>

Updated == Out.UpdatedItem[1]

AnnString == input.annotations.type = "string"

AnnAbsent == input.annotations.type \in {"nil", "absent"}

Ann == input.annotations.value

DeploymentOrStatefulSet == input.kind \in {"Deployment", "StatefulSet"}

NoColon(s) == IndexOfColon(s, 1) = 0

RECURSIVE LastColon(_, _)
LastColon(s, i) ==
    IF i = 0 THEN 0
    ELSE IF s[i] = Colon THEN i
    ELSE LastColon(s, i - 1)

HasSlash(s) == \E k \in 1..Len(s) : s[k] = "/"

\* the tag of an image reference: the text after its last colon, unless that
\* text holds a '/', when the colon belongs to a host:port prefix
RefTag(s) ==
    LET i == LastColon(s, Len(s))
        t == SubSeq(s, i + 1, Len(s))
    IN  IF i = 0 \/ HasSlash(t) THEN <<>> ELSE t

HasPort(s) ==
    LET i == IndexOfColon(s, 1) IN
    i > 0 /\ HasSlash(SubSeq(s, i + 1, Len(s)))

\* repo:tag, one colon and a tag after it
IsRepoTag(s) == ~HasPort(s) /\ Len(Split(s)) = 2 /\ RefTag(s) # <<>>

\* repo, repo: or repo:tag, no registry port
PlainImage(s) == ~HasPort(s) /\ Len(Split(s)) <= 2

\* repo:tag or host:port/repo:tag
CarriesTag(s) ==
    /\ RefTag(s) # <<>>
    /\ \A k \in 1..Len(Split(s)) : Split(s)[k] # <<>>

\* the first colon is the last character or is followed by another colon
EmptyFirstTag(s) ==
    LET i == IndexOfColon(s, 1) IN
    i > 0 /\ (i = Len(s) \/ s[i + 1] = Colon)

ImagesOf(item) == [i \in 1..Len(item.containers) |-> item.containers[i].image]

NamesOf(item) == [i \in 1..Len(item.containers) |-> item.containers[i].name]

\* ------------------------------------------------------------------ C1
\* C1: Execute on a Deployment or StatefulSet whose annotation is a string
\* without a colon, and whose container image is repo:tag, returns no error
\* and an updated item in which that container's image is the annotation
\* value, ':' and the original tag.  Stated of the first container of the
\* pod template, which is the only one of a single-container template.
C1_TagPreserved ==
    (Done /\ DeploymentOrStatefulSet /\ AnnString /\ NoColon(Ann)
       /\ Len(input.containers) >= 1 /\ IsRepoTag(input.containers[1].image))
    => /\ Succeeded
       /\ Len(Updated.containers) >= 1
       /\ Updated.containers[1].image
            = Ann \o <<Colon>> \o RefTag(input.containers[1].image)

C1_Witness ==
    /\ Succeeded
    /\ input.kind = "Deployment"
    /\ AnnString /\ Ann = <<"n">>
    /\ Len(input.containers) = 1
    /\ input.containers[1].image = <<"o", ":", "1">>
    /\ Updated.containers[1].image = <<"n", ":", "1">>

\* ------------------------------------------------------------------ C2
\* C2: when the annotation value carries its own tag, Execute on a
\* Deployment or StatefulSet sets the image of every container of the pod
\* template to exactly the annotation value, whatever the container's
\* original tag was.
C2_AnnotationTagWins ==
    (Done /\ DeploymentOrStatefulSet /\ AnnString /\ CarriesTag(Ann))
    => /\ Succeeded
       /\ Len(Updated.containers) = Len(input.containers)
       /\ \A i \in 1..Len(input.containers) : Updated.containers[i].image = Ann

C2_Witness ==
    /\ Succeeded
    /\ input.kind = "StatefulSet"
    /\ AnnString /\ Ann = <<"n", ":", "2">>
    /\ Len(input.containers) = 2
    /\ input.containers[1].image = <<"o", ":", "1">>
    /\ input.containers[2].image = <<"o">>
    /\ Updated.containers[1].image = <<"n", ":", "2">>
    /\ Updated.containers[2].image = <<"n", ":", "2">>

\* ------------------------------------------------------------------ C3
\* C3: when the item has no eth-eks.velero/container-image annotation, or no
\* annotations at all, Execute returns no error and the updated item is the
\* input item itself, with every field unchanged.
C3_NoAnnotationNoChange ==
    (Done /\ AnnAbsent) => (Out.err = NoError /\ Out.UpdatedItem = << input >>)

C3_Witness ==
    /\ Done
    /\ input.kind = "Deployment"
    /\ input.annotations.type = "nil"
    /\ input.unknownFields
    /\ Len(input.containers) = 1
    /\ input.containers[1].image = <<"o", ":", "1">>
    /\ Out.UpdatedItem = << input >>

\* ------------------------------------------------------------------ C4
\* C4: Execute on a CronJob that carries the annotation returns no error and
\* rewrites the container images of its pod template with the tag
\* preservation rule of Deployments and StatefulSets.
C4_CronJobRewritten ==
    (Done /\ input.kind = "CronJob" /\ AnnString)
    => /\ Succeeded
       /\ Len(Updated.containers) = Len(input.containers)
       /\ (NoColon(Ann) /\ Len(input.containers) >= 1
             /\ IsRepoTag(input.containers[1].image))
          => Updated.containers[1].image
               = Ann \o <<Colon>> \o RefTag(input.containers[1].image)

\* ------------------------------------------------------------------ C5
\* C5: AppliesTo returns no error and a selector whose IncludedResources is
\* exactly statefulsets, deployments, cronjobs, in that order, every other
\* selector field being empty.
C5_AppliesToThreeKinds ==
    selector # <<>>
    => /\ selector[1].err = NoError
       /\ selector[1].IncludedResources
            = << "statefulsets", "deployments", "cronjobs" >>
       /\ selector[1].ExcludedResources = <<>>
       /\ selector[1].IncludedNamespaces = <<>>
       /\ selector[1].ExcludedNamespaces = <<>>
       /\ selector[1].LabelSelector = ""

\* ------------------------------------------------------------------ C6
\* C6: with an annotation value without a tag, Execute rewrites every
\* container and each container keeps its own original tag: container i ends
\* with the annotation value, ':' and its own tag when it had one, and with
\* the bare annotation value when it had none, whatever the other containers
\* are.  Stated on images without a registry port (repo, repo: or repo:tag),
\* where what the tag of an image is does not depend on the port rule.
C6_EachContainerOwnTag ==
    (Done /\ DeploymentOrStatefulSet /\ AnnString /\ NoColon(Ann)
       /\ \A i \in 1..Len(input.containers) : PlainImage(input.containers[i].image))
    => /\ Succeeded
       /\ Len(Updated.containers) = Len(input.containers)
       /\ \A i \in 1..Len(input.containers) :
            Updated.containers[i].image
              = IF RefTag(input.containers[i].image) # <<>>
                THEN Ann \o <<Colon>> \o RefTag(input.containers[i].image)
                ELSE Ann

\* ------------------------------------------------------------------ C7
\* C7: a colon in a host:port prefix is not taken as the tag separator: an
\* annotation without a tag, host:port/repo included, gets the original tag
\* appended, and an original image host:port/repo:tag contributes its tag,
\* not port/repo.  Stated of the first container.
C7_RegistryPortIsNotATag ==
    (Done /\ DeploymentOrStatefulSet /\ AnnString /\ RefTag(Ann) = <<>>
       /\ Len(input.containers) >= 1
       /\ RefTag(input.containers[1].image) # <<>>)
    => /\ Succeeded
       /\ Len(Updated.containers) >= 1
       /\ Updated.containers[1].image
            = Ann \o <<Colon>> \o RefTag(input.containers[1].image)

\* ------------------------------------------------------------------ C8
\* C8: with the annotation present as a string and a kind that is none of
\* the workload kinds, Execute returns an 'unsupported kind' error and no
\* updated item; with the annotation absent it returns the item unchanged
\* and no error for every kind; Execute never modifies its input item.
C8_State ==
    Done =>
      /\ (AnnString /\ input.kind \notin {"StatefulSet", "Deployment", "CronJob"})
           => /\ Out.err = [msg |-> "unsupported kind", kind |-> input.kind]
              /\ Out.UpdatedItem = <<>>
      /\ AnnAbsent => (Out.err = NoError /\ Out.UpdatedItem = << input >>)

C8_UnsupportedKind ==
    /\ [] C8_State
    /\ [][(output = <<>> /\ output' # <<>>) => input' = input]_vars

C8_Witness ==
    /\ Done
    /\ input.kind = "DaemonSet"
    /\ AnnString /\ Ann = <<"n">>
    /\ Len(input.containers) = 1
    /\ Out.err.msg = "unsupported kind"
    /\ Out.UpdatedItem = <<>>

\* ------------------------------------------------------------------ C9
\* C9 as claimed: running Execute on the updated item of a first Execute
\* gives the same container images as the first run, for every annotation
\* value: with a tag, without a tag, or ending in a colon with an empty tag.
Rerun ==
    /\ Succeeded
    /\ Len(previous) >= 1
    /\ DeploymentOrStatefulSet
    /\ AnnString

First == previous[Len(previous)].UpdatedItem[1]

C9_Idempotent ==
    Rerun => ImagesOf(Updated) = ImagesOf(First)

\* C9 as amended: Execute is idempotent for every annotation value that has
\* no colon or has a non-empty text right after its first colon.
C9_IdempotentNonEmptyTag ==
    (Rerun /\ ~EmptyFirstTag(Ann)) => ImagesOf(Updated) = ImagesOf(First)

C9_Witness ==
    /\ Rerun
    /\ Ann = <<"n">>
    /\ Len(First.containers) = 2
    /\ ImagesOf(First) = << <<"n", ":", "1">>, <<"n", ":", "1">> >>
    /\ ImagesOf(Updated) = ImagesOf(First)

====
